---- MODULE Spec2Model ----
(***************************************************************************)
(* Model of cargo-web's `test` command: the build-configuration resolver   *)
(* (src/src/build.rs, BuildArgsMatcher and Builder) and the test           *)
(* dispatcher (src/src/cmd_test.rs, command_test and test_in_nodejs).      *)
(*                                                                         *)
(* Strings whose characters the code inspects or formats (linker           *)
(* arguments, rustc flags) are sequences of one-character strings, so that *)
(* `contains` and `format!` are computed.  Option<T> is <<>> for None and  *)
(* <<x>> for Some(x).                                                      *)
(***************************************************************************)
EXTENDS Integers, Sequences, FiniteSets, TLC

VARIABLES
    matches,        \* clap::ArgMatches of the invocation (read-only)
    cwd,            \* the process-wide working directory
    pc,             \* position of command_test
    package,        \* Option: the package resolved at cmd_test.rs:84
    config,         \* Option: the Config loaded at cmd_test.rs:85
    targets,        \* the targets resolved at cmd_test.rs:86
    builder,        \* Option: the loop-local Builder of cmd_test.rs:92
    builds,         \* Vec<CargoResult> of cmd_test.rs:90
    any_failure,    \* cmd_test.rs:100
    result,         \* "Running", or how command_test ended
    exit_code,      \* Option: the status given to process::exit
    build_log,      \* history: the calls of Builder::run, in order
    run_log         \* history: the calls of test_in_nodejs / test_in_chromium

vars == << matches, cwd, pc, package, config, targets, builder, builds,
           any_failure, result, exit_code, build_log, run_log >>

----------------------------------------------------------------------------
(* Bounds of the model *)

\* Test targets of the default package (it also has a Lib and a Bin target).
NumTests == 1

\* Longest list of project-declared linker arguments.
MaxLinkArgs == 2

----------------------------------------------------------------------------
(* Option and string helpers *)

None == << >>

Some(x) == << x >>

IsSome(o) == o # << >>

Unwrap(o) == o[1]

\* A check of the first characters only (str::starts_with).
Contains_StartsWith(s, pat) ==
    Len(s) >= Len(pat) /\ SubSeq(s, 1, Len(pat)) = pat

\* str::contains( pat ): pat occurs in s as a contiguous substring.
Contains(s, pat) ==
    \E i \in 1..(Len(s) - Len(pat) + 1) : SubSeq(s, i, i + Len(pat) - 1) = pat

Range(seq) == { seq[i] : i \in 1..Len(seq) }

\* Iterator::find: the first element the closure accepts, as an Option.  A
\* closure is a function from the elements to BOOLEAN.
RECURSIVE FindFirst(_, _, _)
FindFirst(seq, closure, i) ==
    IF i > Len(seq) THEN None
    ELSE IF closure[seq[i]] THEN Some(seq[i])
    ELSE FindFirst(seq, closure, i + 1)

Find(seq, closure) == FindFirst(seq, closure, 1)

\* Iterator::filter(..).collect(): the elements the closure accepts, in order.
RECURSIVE FilterFrom(_, _, _)
FilterFrom(seq, closure, i) ==
    IF i > Len(seq) THEN << >>
    ELSE IF closure[seq[i]] THEN << seq[i] >> \o FilterFrom(seq, closure, i + 1)
    ELSE FilterFrom(seq, closure, i + 1)

Filter(seq, closure) == FilterFrom(seq, closure, 1)

RECURSIVE Flatten(_)
Flatten(seqs) ==
    IF seqs = << >> THEN << >> ELSE Head(seqs) \o Flatten(Tail(seqs))

StrDashC == << "-", "C" >>

StrLinkArgEq == << "l", "i", "n", "k", "-", "a", "r", "g", "=" >>

StrDashS == << "-", "s" >>

StrNoExitRuntimeEq ==
    << "N", "O", "_", "E", "X", "I", "T", "_", "R", "U", "N", "T", "I", "M", "E", "=" >>

StrDebuginfo2 == << "d", "e", "b", "u", "g", "i", "n", "f", "o", "=", "2" >>

StrSpace == << " " >>

\* `bool as u32` formatted with {}.
BoolAsU32(b) == IF b THEN << "1" >> ELSE << "0" >>

----------------------------------------------------------------------------
(* The project: read-only metadata supplied by cargo_shim *)

TestNames == << "t1", "t2", "t3", "t4" >>

Target(kind, name) == [ kind |-> kind, name |-> name ]

TestTargets == [ i \in 1..NumTests |-> Target("Test", TestNames[i]) ]

AppPackage ==
    [ name    |-> "app",
      targets |-> << Target("Example", "e"), Target("Lib", "app"),
                     Target("Bench", "b"), Target("Bin", "a") >> \o TestTargets ]

AuxPackage ==
    [ name    |-> "aux",
      targets |-> << Target("Example", "e"), Target("Bench", "b") >> ]

Project == [ packages |-> << AuxPackage, AppPackage >> ]

\* CargoProject::default_package (cargo_shim): the project's designated
\* default package.
DefaultPackage(project) == project.packages[2]

\* Names a --package option can give: an existing package that is not the
\* default one, and a name no package has.
PackageNames == { "aux", "zz" }

\* The directory the toolchain puts a target's main artifacts in, and the
\* separate directory Emscripten puts the .wasm file in.
OutDir(target) == << "out", target.name >>

DepsDir(target) == << "deps", target.name >>

StartDirs == { << "cwd", "project" >> }

JsArtifact(target) == [ dir |-> OutDir(target), ext |-> "js" ]

WasmArtifact(target, dir) == [ dir |-> dir, ext |-> "wasm" ]

----------------------------------------------------------------------------
(* BuildArgsMatcher (build.rs) *)

requested_build_type(m) == IF m.release THEN "Release" ELSE "Debug"

targeting_emscripten_wasm(m) == m.target_webasm_emscripten

targeting_native_wasm(m) == m.target_webasm

targeting_emscripten_asmjs(m) ==
    ~targeting_emscripten_wasm(m) /\ ~targeting_native_wasm(m)

targeting_wasm(m) == targeting_emscripten_wasm(m) \/ targeting_native_wasm(m)

targeting_emscripten(m) ==
    targeting_emscripten_wasm(m) \/ targeting_emscripten_asmjs(m)

build_type_Requested(m) == requested_build_type(m)

build_type(m) ==
    LET requested == requested_build_type(m) IN
    IF targeting_native_wasm(m) /\ requested = "Debug"
    THEN "Release"
    ELSE requested

Ok(v) == [ ok |-> TRUE, value |-> v ]

Err(e) == [ ok |-> FALSE, error |-> e ]

\* BuildArgsMatcher::package: Result< Option< &CargoPackage >, Error >
package_of(m, project) ==
    IF IsSome(m.package)
    THEN LET found == Find(project.packages,
                           [ p \in Range(project.packages) |->
                               p.name = Unwrap(m.package) ]) IN
         IF found = None THEN Err("ConfigurationError") ELSE Ok(found)
    ELSE Ok(None)

\* A lookup that falls back to the default package when the name is unknown.
package_or_default_Fallback(m, project) ==
    LET r == package_of(m, project) IN
    IF r.ok /\ IsSome(r.value) THEN Ok(Unwrap(r.value))
    ELSE Ok(DefaultPackage(project))

package_or_default(m, project) ==
    LET r == package_of(m, project) IN
    IF ~r.ok THEN r
    ELSE IF IsSome(r.value) THEN Ok(Unwrap(r.value))
    ELSE Ok(DefaultPackage(project))

\* BuildArgsMatcher::target: Result< Option< &CargoTarget >, Error >
target_of(m, pkg) ==
    LET SelectNamed(kind, name) ==
            LET found == Find(pkg.targets,
                              [ t \in Range(pkg.targets) |->
                                  t.kind = kind /\ t.name = name ]) IN
            IF found = None THEN Err("ConfigurationError") ELSE Ok(found)
    IN
    IF m.lib
    THEN LET found == Find(pkg.targets,
                           [ t \in Range(pkg.targets) |-> t.kind = "Lib" ]) IN
         IF found = None THEN Err("ConfigurationError") ELSE Ok(found)
    ELSE IF IsSome(m.bin) THEN SelectNamed("Bin", Unwrap(m.bin))
    ELSE IF IsSome(m.example) THEN SelectNamed("Example", Unwrap(m.example))
    ELSE IF IsSome(m.bench) THEN SelectNamed("Bench", Unwrap(m.bench))
    ELSE Ok(None)

target_or_select(m, pkg, filter) ==
    LET r == target_of(m, pkg) IN
    IF ~r.ok THEN r
    ELSE IF IsSome(r.value) THEN Ok(<< Unwrap(r.value) >>)
    ELSE Ok(Filter(pkg.targets, filter))

StrWasm32UnknownUnknown == "wasm32-unknown-unknown"

StrWasm32UnknownEmscripten == "wasm32-unknown-emscripten"

StrAsmjsUnknownEmscripten == "asmjs-unknown-emscripten"

triplet_or_default(m) ==
    IF m.target_webasm THEN StrWasm32UnknownUnknown
    ELSE IF m.target_webasm_emscripten THEN StrWasm32UnknownEmscripten
    ELSE StrAsmjsUnknownEmscripten

\* What initialize_emscripten can return: None, or the toolchain's paths with
\* or without a binaryen path.
EmscriptenChoices ==
    { None, Some([ binaryen_path |-> None ]),
      Some([ binaryen_path |-> Some("binaryen") ]) }

\* The flag pair pushed for one linker argument (build.rs:199-200).
LinkArgFlags(arg) == << StrDashC, StrLinkArgEq \o arg >>

StrTab == << "\t" >>

\* A test that rejects a tab as well as a space.
has_space_Whitespace(arg) == Contains(arg, StrSpace) \/ Contains(arg, StrTab)

\* build.rs:192
has_space(arg) == Contains(arg, StrSpace)

\* A flag computed from the wrong profile.
exit_runtime_Test(profile) == profile = "Test"

\* build.rs:182
exit_runtime(profile) == profile = "Main"

\* A debug-info test on the effective build type.
wants_debuginfo_Effective(m) ==
    targeting_native_wasm(m) /\ build_type(m) = "Debug"

\* build.rs:204
wants_debuginfo(m) ==
    targeting_native_wasm(m) /\ requested_build_type(m) = "Debug"

\* BuildArgsMatcher::prepare_builder.  emscripten is the answer of
\* initialize_emscripten, cargo_incremental whether CARGO_INCREMENTAL is set.
\* The result is either the abort of build.rs:196 or the Builder.
prepare_builder(m, cfg, pkg, target, profile, emscripten, cargo_incremental) ==
    LET em_paths ==
            IF targeting_emscripten(m) /\ IsSome(emscripten)
            THEN << "emscripten_path" >> ELSE << >>
        em_env ==
            IF targeting_emscripten(m) /\ IsSome(emscripten)
            THEN << << "EMSCRIPTEN", "emscripten_path" >>,
                    << "EMSCRIPTEN_FASTCOMP", "emscripten_llvm_path" >>,
                    << "LLVM", "emscripten_llvm_path" >> >>
                 \o (IF IsSome(Unwrap(emscripten).binaryen_path)
                     THEN << << "BINARYEN", Unwrap(Unwrap(emscripten).binaryen_path) >> >>
                     ELSE << >>)
            ELSE << >>
        em_flags ==
            IF targeting_emscripten(m)
            THEN << StrDashC, StrLinkArgEq \o StrDashS,
                    StrDashC, StrLinkArgEq \o StrNoExitRuntimeEq \o BoolAsU32(exit_runtime(profile)) >>
            ELSE << >>
        link_args == IF IsSome(cfg.link_args) THEN Unwrap(cfg.link_args) ELSE << >>
        rejected == \E i \in 1..Len(link_args) : has_space(link_args[i])
        link_flags ==
            Flatten([ i \in 1..Len(link_args) |-> LinkArgFlags(link_args[i]) ])
        debug_flags ==
            IF wants_debuginfo(m)
            THEN << StrDashC, StrDebuginfo2 >> ELSE << >>
        inc_env ==
            IF targeting_native_wasm(m) /\ cargo_incremental
            THEN << << "CARGO_INCREMENTAL", "0" >> >> ELSE << >>
    IN
    IF rejected
    THEN [ aborted |-> TRUE, code |-> 101 ]
    ELSE [ aborted |-> FALSE,
           builder |->
             [ build_target      |-> [ target |-> target, profile |-> profile ],
               build_type        |-> build_type(m),
               triplet           |-> Some(triplet_or_default(m)),
               package           |-> Some(pkg.name),
               extra_paths       |-> em_paths,
               extra_rustflags   |-> em_flags \o link_flags \o debug_flags,
               extra_environment |-> em_env \o inc_env ] ]

----------------------------------------------------------------------------
(* Builder (build.rs) *)

\* What BuildConfig::build (cargo_shim) can answer for a configuration, the
\* artifacts of wasm::process_wasm_file merged in: a failure, or a success
\* with the artifacts of the triplet.  A successful build can lack the .js
\* file (native wasm, when the post-processor derives nothing) or the .wasm
\* file; the post-processor writes the .js file it derives next to the
\* .wasm file, and only Emscripten puts the .wasm file in another directory
\* than the .js file.
ToolchainResults(cfg) ==
    LET t == cfg.build_target.target
        triplet == Unwrap(cfg.triplet)
        lists ==
            IF triplet = StrWasm32UnknownUnknown
            THEN { << WasmArtifact(t, OutDir(t)), JsArtifact(t) >>,
                   << WasmArtifact(t, OutDir(t)) >> }
            ELSE IF triplet = StrWasm32UnknownEmscripten
            THEN { << JsArtifact(t), WasmArtifact(t, DepsDir(t)) >>,
                   << JsArtifact(t) >> }
            ELSE { << JsArtifact(t) >> }
    IN
    { [ is_ok |-> FALSE, artifacts |-> << >> ] }
        \cup { [ is_ok |-> TRUE, artifacts |-> a ] : a \in lists }

\* A run that hands the toolchain's result on without looking at it.
Builder_run_Unchecked(cargo_result) == Ok(cargo_result)

\* Builder::run: Err( BuildError ) unless the toolchain's result is ok.
Builder_run(cargo_result) ==
    IF cargo_result.is_ok = FALSE
    THEN Err("BuildError")
    ELSE Ok(cargo_result)

----------------------------------------------------------------------------
(* test_in_nodejs and test_in_chromium *)

NodeCommands == { "node.exe", "nodejs", "node" }

\* A probe that assumes "node" when it finds nothing.
NodejsName_AssumeNode(windows, exists) ==
    IF windows /\ "node.exe" \in exists THEN Some("node.exe")
    ELSE IF "nodejs" \in exists THEN Some("nodejs")
    ELSE Some("node")

\* cmd_test.rs:31-40: the probe for the node.js executable.  windows is
\* cfg!( windows ), exists the commands check_if_command_exists finds.
NodejsName(windows, exists) ==
    IF windows /\ "node.exe" \in exists THEN Some("node.exe")
    ELSE IF "nodejs" \in exists THEN Some("nodejs")
    ELSE IF "node" \in exists THEN Some("node")
    ELSE None

\* cmd_test.rs:62: the OR-reduction into *any_failure.
aggregate_Overwrite(flag, status_ok) == ~status_ok

aggregate(flag, status_ok) == flag \/ ~status_ok

\* cmd_test.rs:64: the working directory after env::set_current_dir(
\* previous_cwd ), which fails when previous_cwd can no longer be entered.
restored_cwd_Stay(previous_cwd, run_dir, restore_ok) == run_dir

restored_cwd(previous_cwd, run_dir, restore_ok) ==
    IF restore_ok THEN previous_cwd ELSE run_dir

\* A run in the .js artifact's directory whatever the target.
run_directory_Js(m, artifact, wasm_artifact) == artifact.dir

\* cmd_test.rs:50-59: the directory the runtime is executed in; artifact is
\* the .js artifact, wasm_artifact the .wasm artifact if there is one.
run_directory(m, artifact, wasm_artifact) ==
    IF targeting_emscripten_wasm(m)
    THEN Unwrap(wasm_artifact).dir
    ELSE artifact.dir

\* What the file system and the runtime process answer during one call of
\* test_in_nodejs: env::current_dir succeeds (cwd_ok), the run directory can
\* be entered (chdir_ok), the runtime process exits (exits), the previous
\* directory can be entered again (restore_ok).  At most one thing goes wrong
\* in a call.
RunAnswers ==
    { a \in [ cwd_ok : BOOLEAN, chdir_ok : BOOLEAN, exits : BOOLEAN,
              restore_ok : BOOLEAN ] :
        Cardinality({ f \in { "cwd_ok", "chdir_ok", "exits", "restore_ok" } :
                        ~a[f] }) <= 1 }

\* The runtime's exit status together with the answers: there is a status
\* to choose only when the runtime process was started and has exited.
RunOutcomes ==
    { o \in [ status_ok : BOOLEAN, answers : RunAnswers ] :
        (~o.answers.cwd_ok \/ ~o.answers.chdir_ok \/ ~o.answers.exits)
            => o.status_ok }

\* What the probes of check_if_command_exists can find, on a Windows build
\* and on another one.
ProbeAnswers ==
    { [ windows |-> TRUE,  exists |-> NodeCommands ],
      [ windows |-> FALSE, exists |-> NodeCommands ],
      [ windows |-> FALSE, exists |-> { "node.exe", "node" } ],
      [ windows |-> FALSE, exists |-> { "node.exe" } ] }

\* test_in_nodejs: the call's return (ret), the working directory and the
\* any_failure flag it leaves, and the directory the runtime was executed in
\* (exec_cwd, None when it was not executed).  name is the probe's answer,
\* status_ok whether the runtime's exit status is ok, answers an element of
\* RunAnswers.  ret is "Panic" for the expect()s and unwrap()s that fail, and
\* "Blocked" while the runtime process does not exit (the call has not
\* returned, the working directory is the run directory).
test_in_nodejs(m, build, flag, dir, name, status_ok, answers) ==
    LET unchanged(ret) ==
            [ ret |-> ret, any_failure |-> flag, cwd |-> dir, exec_cwd |-> None ]
        artifact == Find(build.artifacts,
                         [ a \in Range(build.artifacts) |-> a.ext = "js" ])
        wasm_artifact == Find(build.artifacts,
                              [ a \in Range(build.artifacts) |-> a.ext = "wasm" ])
        previous_cwd == dir
    IN
    IF name = None THEN unchanged("EnvironmentError")
    ELSE IF artifact = None THEN unchanged("Panic")
    ELSE IF ~answers.cwd_ok THEN unchanged("Panic")
    ELSE IF targeting_emscripten_wasm(m) /\ wasm_artifact = None
    THEN unchanged("Panic")
    ELSE IF ~answers.chdir_ok THEN unchanged("Panic")
    ELSE LET run_dir == run_directory(m, Unwrap(artifact), wasm_artifact)
         IN IF ~answers.exits
            THEN [ ret         |-> "Blocked",
                   any_failure |-> flag,
                   cwd         |-> run_dir,
                   exec_cwd    |-> Some(run_dir) ]
            ELSE [ ret         |-> IF answers.restore_ok THEN "Ok" ELSE "Panic",
                   any_failure |-> aggregate(flag, status_ok),
                   cwd         |-> restored_cwd(previous_cwd, run_dir,
                                                answers.restore_ok),
                   exec_cwd    |-> Some(run_dir) ]

\* test_in_chromium (test_chromium.rs): the browser harness reports pass or
\* fail into any_failure, or returns an error.
test_in_chromium(flag, dir, outcome) ==
    IF outcome = "err"
    THEN [ ret |-> "HarnessError", any_failure |-> flag, cwd |-> dir,
           exec_cwd |-> None ]
    ELSE [ ret |-> "Ok", any_failure |-> flag \/ (outcome = "fail"), cwd |-> dir,
           exec_cwd |-> Some(dir) ]

----------------------------------------------------------------------------
(* command_test (cmd_test.rs) *)

\* The linker arguments a Web.toml can declare.
LinkArgs ==
    { << "-", "l", "m" >>, << "-", "L", " ", "x" >>, << "-", "T", "\t", "x" >> }

RECURSIVE SeqsUpTo(_, _)
SeqsUpTo(S, n) ==
    IF n = 0 THEN { << >> }
    ELSE LET shorter == SeqsUpTo(S, n - 1) IN
         shorter \cup { Append(q, x) : q \in shorter, x \in S }

Configs ==
    { [ link_args |-> None ] }
        \cup { [ link_args |-> Some(l) ] : l \in SeqsUpTo(LinkArgs, MaxLinkArgs) }

MatchesSet ==
    [ release                  : BOOLEAN,
      target_webasm            : BOOLEAN,
      target_webasm_emscripten : BOOLEAN,
      nodejs                   : BOOLEAN,
      no_run                   : BOOLEAN,
      package                  : { None } \cup { Some(n) : n \in PackageNames },
      lib                      : BOOLEAN,
      bin                      : { None, Some("a"), Some("zz") },
      example                  : { None, Some("e") },
      bench                    : { None, Some("b") } ]

\* A closure that accepts every target.
TestFilter_All(pkg) == [ target \in Range(pkg.targets) |-> TRUE ]

\* The closure command_test passes to target_or_select (cmd_test.rs:86-88).
TestFilter(pkg) ==
    [ target \in Range(pkg.targets) |->
        target.kind = "Lib" \/ target.kind = "Bin" \/ target.kind = "Test" ]

Init ==
    /\ matches \in MatchesSet
    /\ cwd \in StartDirs
    /\ pc = "check_runtime"
    /\ package = None
    /\ config = None
    /\ targets = << >>
    /\ builder = None
    /\ builds = << >>
    /\ any_failure = FALSE
    /\ result = "Running"
    /\ exit_code = None
    /\ build_log = << >>
    /\ run_log = << >>

\* command_test returns `how`.
Return(how) ==
    /\ result' = how
    /\ pc' = "done"

\* process::exit( code )
Exit(code) ==
    /\ exit_code' = Some(code)
    /\ result' = "Exited"
    /\ pc' = "done"

\* A dispatcher without the check of the runtime.
CheckRuntime_NoCheck ==
    /\ pc = "check_runtime"
    /\ pc' = "package"
    /\ UNCHANGED << matches, cwd, package, config, targets, builder, builds,
                    any_failure, result, exit_code, build_log, run_log >>

\* cmd_test.rs:75-79
CheckRuntime ==
    /\ pc = "check_runtime"
    /\ IF targeting_native_wasm(matches) /\ ~matches.nodejs
       THEN Return("ConfigurationError")
       ELSE pc' = "package" /\ UNCHANGED result
    /\ UNCHANGED << matches, cwd, package, config, targets, builder, builds,
                    any_failure, exit_code, build_log, run_log >>

\* cmd_test.rs:84
ResolvePackage ==
    /\ pc = "package"
    /\ LET r == package_or_default(matches, Project) IN
       IF r.ok
       THEN package' = Some(r.value) /\ pc' = "config" /\ UNCHANGED result
       ELSE Return(r.error) /\ UNCHANGED package
    /\ UNCHANGED << matches, cwd, config, targets, builder, builds,
                    any_failure, exit_code, build_log, run_log >>

\* cmd_test.rs:85: the loader answers a configuration, or an error on which
\* unwrap() panics.
LoadConfig ==
    /\ pc = "config"
    /\ \/ /\ \E c \in Configs : config' = Some(c)
          /\ pc' = "targets"
          /\ UNCHANGED result
       \/ /\ Return("Panic")
          /\ UNCHANGED config
    /\ UNCHANGED << matches, cwd, package, targets, builder, builds,
                    any_failure, exit_code, build_log, run_log >>

\* cmd_test.rs:86-88
ResolveTargets ==
    /\ pc = "targets"
    /\ LET r == target_or_select(matches, Unwrap(package),
                                 TestFilter(Unwrap(package))) IN
       IF r.ok
       THEN targets' = r.value /\ pc' = "build" /\ UNCHANGED result
       ELSE Return(r.error) /\ UNCHANGED targets
    /\ UNCHANGED << matches, cwd, package, config, builder, builds,
                    any_failure, exit_code, build_log, run_log >>

\* cmd_test.rs:91-94, one iteration of the build loop: prepare_builder, which
\* can abort the process, then Builder::run, whose error ends command_test.
BuildTarget ==
    /\ pc = "build"
    /\ Len(builds) < Len(targets)
    /\ LET target == targets[Len(builds) + 1] IN
       \E emscripten \in EmscriptenChoices, cargo_incremental \in BOOLEAN :
         LET prepared == prepare_builder(matches, Unwrap(config), Unwrap(package),
                                         target, "Test", emscripten,
                                         cargo_incremental)
         IN
         IF prepared.aborted
         THEN /\ Exit(prepared.code)
              /\ UNCHANGED << builder, builds, build_log >>
         ELSE \E cargo_result \in ToolchainResults(prepared.builder) :
                LET r == Builder_run(cargo_result) IN
                /\ builder' = Some(prepared.builder)
                /\ build_log' = Append(build_log, [ target |-> target,
                                                    is_ok  |-> cargo_result.is_ok ])
                /\ IF r.ok
                   THEN /\ builds' = Append(builds, [ target    |-> target,
                                                      artifacts |-> r.value.artifacts ])
                        /\ UNCHANGED << pc, result >>
                   ELSE /\ Return(r.error)
                        /\ UNCHANGED builds
                /\ UNCHANGED exit_code
    /\ UNCHANGED << matches, cwd, package, config, targets, any_failure,
                    run_log >>

\* A dispatcher that goes on to the test runs whatever no_run says.
CheckNoRun_Ignored ==
    /\ pc = "build"
    /\ Len(builds) = Len(targets)
    /\ any_failure' = FALSE
    /\ pc' = "run"
    /\ builder' = None
    /\ UNCHANGED << matches, cwd, package, config, targets, builds, build_log,
                    run_log, result, exit_code >>

\* cmd_test.rs:96-100, after the build loop (whose local `builder` is gone)
CheckNoRun ==
    /\ pc = "build"
    /\ Len(builds) = Len(targets)
    /\ IF matches.no_run
       THEN Exit(0) /\ UNCHANGED any_failure
       ELSE /\ any_failure' = FALSE
            /\ pc' = "run"
            /\ UNCHANGED << result, exit_code >>
    /\ builder' = None
    /\ UNCHANGED << matches, cwd, package, config, targets, builds, build_log,
                    run_log >>

\* The log entry of one test_in_* call.  found: the probe for the runtime
\* executable found one of the accepted names.
RunEntry(target, runtime, r, failed, found) ==
    [ target      |-> target,
      runtime     |-> runtime,
      ret         |-> r.ret,
      exec_cwd    |-> r.exec_cwd,
      failed      |-> failed,
      found       |-> found,
      cwd_before  |-> cwd,
      cwd_after   |-> r.cwd,
      any_failure |-> r.any_failure ]

\* A dispatcher that stops at the first run that reports failure.
AfterRun_StopOnFailure(target, runtime, r, failed, found) ==
    /\ any_failure' = r.any_failure
    /\ cwd' = r.cwd
    /\ run_log' = Append(run_log, RunEntry(target, runtime, r, failed, found))
    /\ IF r.ret = "Blocked"
       THEN pc' = "blocked" /\ UNCHANGED << result, exit_code >>
       ELSE IF r.ret # "Ok" THEN Return(r.ret) /\ UNCHANGED exit_code
       ELSE IF failed THEN Exit(101)
       ELSE UNCHANGED << pc, result, exit_code >>

\* The effect of one test_in_* call on command_test: `?` returns its error;
\* a panic unwinds; while the runtime process does not exit command_test
\* stays inside the call.  failed: the runtime was executed and reported
\* failure.
AfterRun(target, runtime, r, failed, found) ==
    /\ any_failure' = r.any_failure
    /\ cwd' = r.cwd
    /\ run_log' = Append(run_log, RunEntry(target, runtime, r, failed, found))
    /\ IF r.ret = "Ok"
       THEN UNCHANGED << pc, result, exit_code >>
       ELSE IF r.ret = "Blocked"
       THEN pc' = "blocked" /\ UNCHANGED << result, exit_code >>
       ELSE Return(r.ret) /\ UNCHANGED exit_code

\* An iteration that takes the builds from the back.
next_build_Reversed(bs, done_count) == bs[Len(bs) - done_count]

\* `for build in builds` (cmd_test.rs:102, 106): the build of the next
\* iteration, done_count iterations being done.
next_build(bs, done_count) == bs[done_count + 1]

\* cmd_test.rs:101-104, one iteration
RunNodejs ==
    /\ pc = "run"
    /\ matches.nodejs
    /\ Len(run_log) < Len(builds)
    /\ LET build == next_build(builds, Len(run_log)) IN
       \E probe \in ProbeAnswers, o \in RunOutcomes :
         LET windows == probe.windows
             exists == probe.exists
             status_ok == o.status_ok
             r == test_in_nodejs(matches, build, any_failure, cwd,
                                 NodejsName(windows, exists), status_ok,
                                 o.answers)
             found == \/ windows /\ "node.exe" \in exists
                      \/ "nodejs" \in exists
                      \/ "node" \in exists
         IN AfterRun(build.target, "nodejs", r,
                     IsSome(r.exec_cwd) /\ r.ret # "Blocked" /\ ~status_ok,
                     found)
    /\ UNCHANGED << matches, package, config, targets, builder, builds,
                    build_log >>

\* cmd_test.rs:105-108, one iteration
RunChromium ==
    /\ pc = "run"
    /\ ~matches.nodejs
    /\ Len(run_log) < Len(builds)
    /\ LET build == next_build(builds, Len(run_log)) IN
       \E outcome \in { "pass", "fail", "err" } :
         AfterRun(build.target, "chromium",
                  test_in_chromium(any_failure, cwd, outcome), outcome = "fail",
                  TRUE)
    /\ UNCHANGED << matches, package, config, targets, builder, builds,
                    build_log >>

\* cmd_test.rs:111-121, after the run loop
Finish ==
    /\ pc = "run"
    /\ Len(run_log) = Len(builds)
    /\ IF any_failure
       THEN Exit(101)
       ELSE Return("Ok") /\ UNCHANGED exit_code
    /\ UNCHANGED << matches, cwd, package, config, targets, builder, builds,
                    any_failure, build_log, run_log >>

Next ==
    \/ CheckRuntime
    \/ ResolvePackage
    \/ LoadConfig
    \/ ResolveTargets
    \/ BuildTarget
    \/ CheckNoRun
    \/ RunNodejs
    \/ RunChromium
    \/ Finish

\* No fairness is assumed: command_test waits for the toolchain
\* (Builder::run), for the browser harness and for the node.js process, and
\* none of them has to exit.  While it waits inside Builder::run or the
\* harness nothing it has set changes, which is a behaviour that stutters
\* before BuildTarget or RunChromium; waiting for node.js is pc = "blocked".
Spec == Init /\ [][Next]_vars

Done == pc = "done"

\* A caller of prepare_builder with either profile, for an invocation that
\* names no package and no target.
PrepareBuilder ==
    /\ pc = "check_runtime"
    /\ \E profile \in { "Main", "Test" }, cfg \in Configs,
          pkg \in Range(Project.packages), emscripten \in EmscriptenChoices,
          cargo_incremental \in BOOLEAN :
         \E target \in Range(pkg.targets) :
           LET prepared == prepare_builder(matches, cfg, pkg, target, profile,
                                           emscripten, cargo_incremental)
           IN
           /\ config' = Some(cfg)
           /\ IF prepared.aborted
              THEN Exit(prepared.code) /\ UNCHANGED builder
              ELSE /\ builder' = Some(prepared.builder)
                   /\ Return("Prepared")
                   /\ UNCHANGED exit_code
    /\ UNCHANGED << matches, cwd, package, targets, builds, any_failure,
                    build_log, run_log >>

ProfileInit ==
    /\ Init
    /\ matches.package = None
    /\ ~matches.lib
    /\ matches.bin = None
    /\ matches.example = None
    /\ matches.bench = None

ProfileNext == Next \/ PrepareBuilder

\* command_test together with callers of prepare_builder that build with
\* Profile::Main.
ProfileSpec == ProfileInit /\ [][ProfileNext]_vars

----------------------------------------------------------------------------
(* Vocabulary of the properties *)

\* The invocation asks for native WebAssembly without the script runtime.
UnsupportedRuntime == matches.target_webasm /\ ~matches.nodejs

\* The package and target selectors of the invocation resolve.
SelectionOk ==
    LET p == package_or_default(matches, Project) IN
    p.ok /\ target_or_select(matches, p.value, TestFilter(p.value)).ok

\* The loaded Web.toml declares a linker argument with a space character.
ConfigHasSpace ==
    /\ IsSome(config)
    /\ IsSome(Unwrap(config).link_args)
    /\ \E i \in 1..Len(Unwrap(Unwrap(config).link_args)) :
         LET arg == Unwrap(Unwrap(config).link_args)[i] IN
         \E j \in 1..Len(arg) : arg[j] = " "

AllBuildsOk == \A j \in 1..Len(build_log) : build_log[j].is_ok

\* The runs of target t in which the runtime was executed.
ExecutedRuns(t) ==
    { i \in 1..Len(run_log) : run_log[i].target = t /\ IsSome(run_log[i].exec_cwd) }

AllRunsCompleted ==
    /\ Len(run_log) = Len(builds)
    /\ \A i \in 1..Len(run_log) : run_log[i].ret = "Ok"

ReportedFailures == { i \in 1..Len(run_log) : run_log[i].failed }

DirsOf(build, ext) ==
    { build.artifacts[i].dir : i \in { j \in 1..Len(build.artifacts) :
                                         build.artifacts[j].ext = ext } }

----------------------------------------------------------------------------
(* C1 *)

\* C1: Builder::run is called for the resolved targets in order; when the
\* toolchain fails for target k, the builds before k succeeded, no build
\* follows k, no test run is ever started and command_test has returned
\* BuildError.
C1_FailFast ==
    /\ Len(build_log) <= Len(targets)
    /\ \A j \in 1..Len(build_log) : build_log[j].target = targets[j]
    /\ \A k \in 1..Len(build_log) :
         ~build_log[k].is_ok =>
            /\ k = Len(build_log)
            /\ \A j \in 1..(k - 1) : build_log[j].is_ok
            /\ Len(builds) = k - 1
            /\ run_log = << >>
            /\ pc = "done"
            /\ result = "BuildError"
            /\ exit_code = None

\* Three targets resolved, the second one fails to build.
C1_Witness ==
    /\ Len(targets) = 3
    /\ Len(build_log) = 2
    /\ build_log[1].is_ok
    /\ ~build_log[2].is_ok
    /\ result = "BuildError"

----------------------------------------------------------------------------
(* C2 *)

\* C2: with more than one built target and every test run completed, exactly
\* one run reporting failure makes any_failure true once the last run has
\* finished and the process exits with status 101; no run reporting failure
\* leaves any_failure false and command_test returns Ok.
C2_Aggregate ==
    (pc \in { "run", "done" } /\ Len(builds) > 1 /\ AllRunsCompleted) =>
        /\ Cardinality(ReportedFailures) = 1 =>
              /\ any_failure
              /\ pc = "done" => (result = "Exited" /\ exit_code = Some(101))
        /\ ReportedFailures = { } =>
              /\ ~any_failure
              /\ pc = "done" => (result = "Ok" /\ exit_code = None)

\* Three script-runtime runs, only the first one fails, exit status 101.
C2_Witness ==
    /\ pc = "done"
    /\ matches.nodejs
    /\ Len(builds) = 3
    /\ AllRunsCompleted
    /\ ReportedFailures = { 1 }
    /\ exit_code = Some(101)

----------------------------------------------------------------------------
(* C3 *)

\* C3 as claimed: once every build has succeeded and running has started,
\* every built target is run exactly once.  (Stated for the script runtime
\* and for runs that find the artifacts they expect.)
C3_EveryBuiltTargetRun ==
    (/\ pc = "done"
     /\ ~matches.no_run
     /\ matches.nodejs
     /\ result # "Panic"
     /\ Len(builds) = Len(targets)) =>
        \A i \in 1..Len(builds) :
            Cardinality(ExecutedRuns(builds[i].target)) = 1

\* C3, amended: runs are made in build order, at most one per built target;
\* a run that completes, reporting pass or failure, never ends the command
\* while built targets remain, and the next target's run can then be taken;
\* only a run that does not complete (an error return, a panic, or a runtime
\* process that never exits) is the last one.  So when every run completes
\* each built target is run exactly once.
C3_FailureDoesNotAbort ==
    /\ Len(run_log) <= Len(builds)
    /\ \A i \in 1..Len(run_log) :
         /\ run_log[i].target = builds[i].target
         /\ run_log[i].ret = "Ok" => IsSome(run_log[i].exec_cwd)
         /\ run_log[i].ret \in { "EnvironmentError", "HarnessError" } =>
               run_log[i].exec_cwd = None
         /\ i < Len(run_log) => run_log[i].ret = "Ok"
    /\ (pc = "run" /\ Len(run_log) < Len(builds)) =>
         /\ \A i \in 1..Len(run_log) : run_log[i].ret = "Ok"
         /\ ENABLED (RunNodejs \/ RunChromium)
    /\ (pc = "done" /\ run_log # << >> /\ run_log[Len(run_log)].ret = "Ok") =>
         /\ Len(run_log) = Len(builds)
         /\ \A i \in 1..Len(builds) :
                Cardinality(ExecutedRuns(builds[i].target)) = 1

\* Three runs, the first reports failure and the two after it are executed.
C3_Witness ==
    /\ pc = "done"
    /\ Len(builds) = 3
    /\ Len(run_log) = 3
    /\ run_log[1].failed
    /\ \A i \in 1..3 : Cardinality(ExecutedRuns(builds[i].target)) = 1

----------------------------------------------------------------------------
(* C4 *)

\* C4 as claimed: with no_run set and no resolved target failing to build,
\* the process exits with status 0 and no test run is started, for every
\* combination of the triplet flags and the nodejs flag.
C4_NoRunExitsZero ==
    (/\ pc = "done"
     /\ matches.no_run
     /\ SelectionOk
     /\ result # "BuildError"
     /\ exit_code # Some(101)) =>
        (exit_code = Some(0) /\ run_log = << >>)

\* C4, amended: the same for every combination but native WebAssembly
\* without the script runtime; the exit with status 0 comes when every
\* resolved target has been built, and with no_run no test run is ever
\* started.  Native WebAssembly without the script runtime ends with
\* ConfigurationError before any build, and a Web.toml that fails to load
\* ends the command with a panic before any target is resolved.
C4_NoRunExitsZeroIfSupported ==
    /\ matches.no_run => run_log = << >>
    /\ (/\ pc = "done"
        /\ matches.no_run
        /\ ~UnsupportedRuntime
        /\ SelectionOk
        /\ IsSome(config)
        /\ result # "BuildError"
        /\ exit_code # Some(101)) =>
           (result = "Exited" /\ exit_code = Some(0))
    /\ (pc = "done" /\ matches.no_run /\ result = "Panic") =>
           (config = None /\ targets = << >> /\ build_log = << >>
              /\ exit_code = None)
    /\ exit_code = Some(0) =>
           /\ matches.no_run
           /\ Len(build_log) = Len(targets)
           /\ AllBuildsOk
    /\ (pc = "done" /\ UnsupportedRuntime) =>
           (result = "ConfigurationError" /\ exit_code = None /\ build_log = << >>)

\* Native WebAssembly with the script runtime, three targets built, exit 0.
C4_Witness ==
    /\ pc = "done"
    /\ matches.no_run
    /\ matches.target_webasm
    /\ matches.nodejs
    /\ Len(build_log) = 3
    /\ exit_code = Some(0)

----------------------------------------------------------------------------
(* C5 *)

\* C5 as claimed: an invocation whose linker arguments hold a space aborts
\* with status 101 without Builder::run having been called, whatever the
\* number of resolved targets.  (Invocations that end with an error return
\* are left aside: their exit status is set outside command_test.)
C5_SpaceAlwaysAborts ==
    (pc = "done" /\ ConfigHasSpace /\ result \in { "Ok", "Exited" }) =>
        (exit_code = Some(101) /\ build_log = << >>)

\* C5, amended: when at least one target is resolved the process aborts with
\* status 101 and Builder::run is never called; with no resolved target the
\* linker arguments are not looked at and the process does not abort.
C5_SpaceAbortsFirstBuild ==
    /\ ConfigHasSpace => (build_log = << >> /\ builds = << >> /\ run_log = << >>)
    /\ (pc = "done" /\ ConfigHasSpace /\ Len(targets) >= 1) =>
           (result = "Exited" /\ exit_code = Some(101))
    /\ (pc = "done" /\ ConfigHasSpace /\ Len(targets) = 0
            /\ result \in { "Ok", "Exited" }) =>
           exit_code # Some(101)

\* Three targets, the second linker argument holds the space, abort 101.
C5_Witness ==
    /\ pc = "done"
    /\ Len(targets) = 3
    /\ IsSome(Unwrap(config).link_args)
    /\ Len(Unwrap(Unwrap(config).link_args)) = 2
    /\ Unwrap(Unwrap(config).link_args)[1] = << "-", "l", "m" >>
    /\ Unwrap(Unwrap(config).link_args)[2] = << "-", "L", " ", "x" >>
    /\ exit_code = Some(101)
    /\ build_log = << >>

----------------------------------------------------------------------------
(* C6 *)

\* The calls of test_in_nodejs that have ended, by a return or by a panic.
EndedNodejsRuns ==
    { i \in 1..Len(run_log) :
        run_log[i].runtime = "nodejs" /\ run_log[i].ret # "Blocked" }

\* C6 as stated: every call of test_in_nodejs that has ended leaves the
\* working directory it found, on every exit path, and so does any sequence
\* of script-runtime runs.
C6_CwdRestored ==
    /\ \A i \in EndedNodejsRuns : run_log[i].cwd_after = run_log[i].cwd_before
    /\ (matches.nodejs /\ run_log # << >> /\ pc # "blocked") =>
          cwd = run_log[1].cwd_before

\* C6: every call of test_in_nodejs that returns (passed, failed, runtime
\* executable not found) leaves the working directory it found, and so does
\* a call that panics before the runtime is executed; after a sequence of
\* runs that all returned the working directory is the one the first run
\* found.  A call that panics after the runtime was executed, because the
\* saved directory cannot be entered again, leaves the run directory as the
\* working directory, as does a call whose runtime process has not exited.
C6_CwdRestoredOnReturn ==
    /\ \A i \in 1..Len(run_log) :
         run_log[i].runtime = "nodejs" =>
            /\ run_log[i].ret \in { "Ok", "EnvironmentError", "Panic", "Blocked" }
            /\ run_log[i].ret \in { "Ok", "EnvironmentError" } =>
                  run_log[i].cwd_after = run_log[i].cwd_before
            /\ (run_log[i].ret = "Panic" /\ run_log[i].exec_cwd = None) =>
                  run_log[i].cwd_after = run_log[i].cwd_before
            /\ (run_log[i].ret = "Panic" /\ IsSome(run_log[i].exec_cwd)) =>
                  run_log[i].cwd_after = Unwrap(run_log[i].exec_cwd)
            /\ run_log[i].ret = "Blocked" =>
                  /\ IsSome(run_log[i].exec_cwd)
                  /\ run_log[i].cwd_after = Unwrap(run_log[i].exec_cwd)
    /\ (/\ matches.nodejs
        /\ run_log # << >>
        /\ run_log[Len(run_log)].ret \in { "Ok", "EnvironmentError" }) =>
          cwd = run_log[1].cwd_before

\* A passed run and a failed run, both executed in another directory, then
\* a run that found no runtime executable.
C6_Witness ==
    /\ Len(run_log) = 3
    /\ \A i \in 1..2 :
         /\ run_log[i].runtime = "nodejs"
         /\ IsSome(run_log[i].exec_cwd)
         /\ run_log[i].exec_cwd # Some(run_log[i].cwd_before)
    /\ ~run_log[1].failed
    /\ run_log[2].failed
    /\ run_log[3].ret = "EnvironmentError"
    /\ cwd = run_log[1].cwd_before

----------------------------------------------------------------------------
(* C7 *)

\* C7: the script runtime is executed in the directory of the .wasm
\* artifact when the resolved triplet is wasm32-unknown-emscripten, and in
\* the directory of the .js artifact for every other resolved triplet.
C7_RunDirectory ==
    \A i \in 1..Len(run_log) :
        (run_log[i].runtime = "nodejs" /\ IsSome(run_log[i].exec_cwd)) =>
            IF triplet_or_default(matches) = StrWasm32UnknownEmscripten
            THEN Unwrap(run_log[i].exec_cwd) \in DirsOf(builds[i], "wasm")
            ELSE Unwrap(run_log[i].exec_cwd) \in DirsOf(builds[i], "js")

\* A run for wasm32-unknown-emscripten, executed in the directory of the
\* .wasm artifact, which is not the directory of the .js artifact.
C7_Witness ==
    /\ triplet_or_default(matches) = StrWasm32UnknownEmscripten
    /\ Len(run_log) >= 1
    /\ run_log[1].runtime = "nodejs"
    /\ run_log[1].ret = "Ok"
    /\ Unwrap(run_log[1].exec_cwd) \in DirsOf(builds[1], "wasm")
    /\ Unwrap(run_log[1].exec_cwd) \notin DirsOf(builds[1], "js")

----------------------------------------------------------------------------
(* C8 *)

\* C8: the resolved triplet is native wasm if its flag is set, else
\* Emscripten wasm if its flag is set, else asm.js; and exactly one of the
\* three targeting predicates is true, the one naming the resolved triplet.
C8_ExactlyOneTarget ==
    LET triplet == triplet_or_default(matches)
        truths == << targeting_native_wasm(matches),
                     targeting_emscripten_wasm(matches),
                     targeting_emscripten_asmjs(matches) >>
    IN
    /\ triplet = (IF matches.target_webasm THEN "wasm32-unknown-unknown"
                  ELSE IF matches.target_webasm_emscripten
                  THEN "wasm32-unknown-emscripten"
                  ELSE "asmjs-unknown-emscripten")
    /\ Cardinality({ i \in 1..3 : truths[i] }) = 1
    /\ truths[1] = (triplet = "wasm32-unknown-unknown")
    /\ truths[2] = (triplet = "wasm32-unknown-emscripten")
    /\ truths[3] = (triplet = "asmjs-unknown-emscripten")

----------------------------------------------------------------------------
(* C9 *)

\* C9: the build type of every Builder is Release when the triplet is native
\* wasm and the requested build type otherwise; no Builder has the native
\* wasm triplet together with build type Debug.
C9_EffectiveBuildType ==
    IsSome(builder) =>
        LET b == Unwrap(builder)
            requested == IF matches.release THEN "Release" ELSE "Debug"
        IN
        /\ b.triplet = Some("wasm32-unknown-unknown") => b.build_type = "Release"
        /\ b.triplet # Some("wasm32-unknown-unknown") => b.build_type = requested
        /\ ~(b.triplet = Some("wasm32-unknown-unknown") /\ b.build_type = "Debug")

\* A Builder for native wasm, Debug requested, Release recorded.
C9_Witness ==
    /\ IsSome(builder)
    /\ ~matches.release
    /\ Unwrap(builder).triplet = Some("wasm32-unknown-unknown")
    /\ Unwrap(builder).build_type = "Release"

----------------------------------------------------------------------------
(* C10 *)

PackageResolved == pc \notin { "check_runtime", "package" }

\* C10: once the package is resolved it is the default package when no name
\* was given and the package of the given name otherwise; a name no package
\* has ends command_test with ConfigurationError, with no package, no
\* target, no build and no run.
C10_PackageOrDefault ==
    LET known == { Project.packages[i].name : i \in 1..Len(Project.packages) } IN
    /\ (PackageResolved /\ matches.package = None /\ ~UnsupportedRuntime) =>
           package = Some(DefaultPackage(Project))
    /\ (PackageResolved /\ IsSome(matches.package) /\ ~UnsupportedRuntime
            /\ Unwrap(matches.package) \in known) =>
           (IsSome(package) /\ Unwrap(package).name = Unwrap(matches.package))
    /\ (IsSome(matches.package) /\ Unwrap(matches.package) \notin known) =>
           /\ package = None
           /\ targets = << >>
           /\ build_log = << >>
           /\ run_log = << >>
           /\ PackageResolved => (pc = "done" /\ result = "ConfigurationError")

\* An unknown package name, rejected by the package lookup itself.
C10_Witness ==
    /\ pc = "done"
    /\ matches.package = Some("zz")
    /\ ~UnsupportedRuntime
    /\ result = "ConfigurationError"
    /\ package = None

----------------------------------------------------------------------------
(* C11 *)

TestKinds == { "Lib", "Bin", "Test" }

\* An explicit target selector is given.
HasSelector ==
    matches.lib \/ IsSome(matches.bin) \/ IsSome(matches.example)
                \/ IsSome(matches.bench)

\* The kind the selectors ask for (build.rs:106-127).
SelectorKind ==
    IF matches.lib THEN "Lib"
    ELSE IF IsSome(matches.bin) THEN "Bin"
    ELSE IF IsSome(matches.example) THEN "Example"
    ELSE "Bench"

\* Every target that is built or run.
HandledTargets ==
    { build_log[j].target : j \in 1..Len(build_log) }
        \cup { run_log[i].target : i \in 1..Len(run_log) }

\* C11 as stated: every target that is built or run has kind Lib, Bin or
\* Test, whatever the selectors and the package.
C11_OnlyTestKinds == \A t \in HandledTargets : t.kind \in TestKinds

\* C11: without an explicit selector every target that is built or run has
\* kind Lib, Bin or Test; with a selector at most the one selected target is
\* built and run, and its kind is the selector's (lib, then bin, then
\* example, then bench), Example and Bench included.
C11_SelectorOrFilter ==
    /\ ~HasSelector =>
          /\ \A j \in 1..Len(targets) : targets[j].kind \in TestKinds
          /\ \A t \in HandledTargets : t.kind \in TestKinds
    /\ HasSelector =>
          /\ Len(targets) <= 1
          /\ \A j \in 1..Len(targets) : targets[j].kind = SelectorKind
          /\ \A t \in HandledTargets : t = targets[1] /\ t.kind = SelectorKind

\* No selector: the library, the binary and the test of the default package
\* are built and run, its example and its benchmark are not.
C11_Witness ==
    /\ ~HasSelector
    /\ IsSome(package)
    /\ \E i \in 1..Len(Unwrap(package).targets) :
         Unwrap(package).targets[i].kind = "Example"
    /\ Len(run_log) = 3
    /\ { run_log[i].target.kind : i \in 1..3 } = TestKinds

----------------------------------------------------------------------------
(* C12 *)

\* C12: when native WebAssembly is targeted and --nodejs is not given, no
\* test run, in node.js or in the browser, is ever started, and the only
\* step command_test takes is to return ConfigurationError.
C12_UnsupportedFailsFast ==
    UnsupportedRuntime =>
        /\ run_log = << >>
        /\ ~any_failure
        /\ pc \in { "check_runtime", "done" }
        /\ pc = "check_runtime" => ENABLED CheckRuntime
        /\ pc = "done" => result = "ConfigurationError"

\* Native WebAssembly without --nodejs, command_test has returned.
C12_Witness ==
    /\ matches.target_webasm
    /\ ~matches.nodejs
    /\ pc = "done"
    /\ result = "ConfigurationError"
    /\ run_log = << >>

----------------------------------------------------------------------------
(* C13 *)

\* The any-failure flag before run i.
FlagBefore(i) == IF i = 1 THEN FALSE ELSE run_log[i - 1].any_failure

\* The node.js runs whose probe found none of the accepted names.
RuntimeNotFound ==
    { i \in 1..Len(run_log) : run_log[i].runtime = "nodejs" /\ ~run_log[i].found }

\* C13 as stated: a node.js run that finds none of the accepted executable
\* names ends with an error of kind ConfigurationError, without executing
\* the runtime and without changing the any-failure flag.
C13_NotFoundIsConfigurationError ==
    \A i \in RuntimeNotFound :
        /\ run_log[i].ret = "ConfigurationError"
        /\ run_log[i].exec_cwd = None
        /\ run_log[i].any_failure = FlagBefore(i)

\* C13: a node.js run that finds none of the accepted executable names
\* returns an error of kind EnvironmentError (no panic, no other kind),
\* which command_test returns in turn; the runtime is not executed, the
\* working directory and the any-failure flag are left as they were, and no
\* further run follows.  No run returns EnvironmentError otherwise.
C13_NotFoundIsEnvironmentError ==
    /\ \A i \in RuntimeNotFound :
         /\ run_log[i].ret = "EnvironmentError"
         /\ run_log[i].exec_cwd = None
         /\ ~run_log[i].failed
         /\ run_log[i].any_failure = FlagBefore(i)
         /\ run_log[i].cwd_after = run_log[i].cwd_before
         /\ i = Len(run_log)
         /\ pc = "done"
         /\ result = "EnvironmentError"
         /\ exit_code = None
    /\ \A i \in 1..Len(run_log) :
         run_log[i].ret = "EnvironmentError" => i \in RuntimeNotFound

\* The first run reported failure, the probe of the second run finds no
\* executable: the flag stays true and command_test returns the error.
C13_Witness ==
    /\ Len(run_log) = 2
    /\ run_log[1].failed
    /\ 2 \in RuntimeNotFound
    /\ run_log[2].any_failure
    /\ result = "EnvironmentError"

----------------------------------------------------------------------------
(* C14 *)

\* Some run up to run i reported failure.
FailedUpTo(i) == \E j \in 1..i : run_log[j].failed

\* C14: any_failure is false until a run has been made; after run i it is
\* true exactly when run i or a run before it reported failure, so once true
\* it stays true after every later run; after the last run made it is true
\* exactly when some run reported failure.
C14_MonotoneFlag ==
    /\ run_log = << >> => ~any_failure
    /\ \A i \in 1..Len(run_log) :
         /\ run_log[i].any_failure = FailedUpTo(i)
         /\ FlagBefore(i) => run_log[i].any_failure
         /\ \A k \in i..Len(run_log) :
              run_log[i].any_failure => run_log[k].any_failure
    /\ any_failure = FailedUpTo(Len(run_log))

\* Three runs: the first passes, the second fails, the third passes, and the
\* flag is false, true, true.
C14_Witness ==
    /\ Len(run_log) = 3
    /\ \A i \in 1..3 : IsSome(run_log[i].exec_cwd)
    /\ ~run_log[1].failed /\ run_log[2].failed /\ ~run_log[3].failed
    /\ ~run_log[1].any_failure /\ run_log[2].any_failure /\ run_log[3].any_failure
    /\ any_failure

----------------------------------------------------------------------------
(* C15 *)

EmscriptenTriplets == { StrWasm32UnknownEmscripten, StrAsmjsUnknownEmscripten }

\* The NO_EXIT_RUNTIME linker flag with value v.
NoExitRuntimeFlag(v) == StrLinkArgEq \o StrNoExitRuntimeEq \o BoolAsU32(v)

\* The values of the NO_EXIT_RUNTIME flags among the configuration's flags.
NoExitRuntimeValues(b) ==
    { v \in BOOLEAN : \E i \in 1..Len(b.extra_rustflags) :
                         b.extra_rustflags[i] = NoExitRuntimeFlag(v) }

EmscriptenVariables == { "EMSCRIPTEN", "EMSCRIPTEN_FASTCOMP", "LLVM", "BINARYEN" }

\* The configuration carries the Emscripten augmentation.
HasEmscriptenAugmentation(b) ==
    \/ NoExitRuntimeValues(b) # { }
    \/ \E i \in 1..Len(b.extra_environment) :
         b.extra_environment[i][1] \in EmscriptenVariables
    \/ b.extra_paths # << >>

\* C15: a configuration carries the NO_EXIT_RUNTIME linker flag or the
\* Emscripten environment variables only when its triplet is
\* asmjs-unknown-emscripten or wasm32-unknown-emscripten; a configuration
\* with the native triplet never does.
C15_AugmentationOnlyForEmscripten ==
    IsSome(builder) =>
        (HasEmscriptenAugmentation(Unwrap(builder)) =>
            Unwrap(Unwrap(builder).triplet) \in EmscriptenTriplets)

----------------------------------------------------------------------------
(* C16 *)

\* The configuration was prepared by command_test's build loop.
BuiltByDispatcher == IsSome(builder) /\ result # "Prepared"

\* C16: a configuration for an Emscripten triplet carries exactly one
\* NO_EXIT_RUNTIME flag, with value 0 when its profile is Test and 1 when it
\* is Main, and no configuration carries the flag with another value; every
\* configuration command_test builds has profile Test, so for an Emscripten
\* triplet it carries NO_EXIT_RUNTIME=0.
C16_ExitRuntimeByProfile ==
    IsSome(builder) =>
        LET b == Unwrap(builder)
            profile == b.build_target.profile
        IN
        /\ profile \in { "Main", "Test" }
        /\ NoExitRuntimeValues(b) \subseteq { profile = "Main" }
        /\ Unwrap(b.triplet) \in EmscriptenTriplets =>
              /\ profile = "Test" => NoExitRuntimeValues(b) = { FALSE }
              /\ profile = "Main" => NoExitRuntimeValues(b) = { TRUE }
        /\ BuiltByDispatcher =>
              /\ profile = "Test"
              /\ Unwrap(b.triplet) \in EmscriptenTriplets =>
                    NoExitRuntimeValues(b) = { FALSE }

\* A configuration with profile Main for wasm32-unknown-emscripten, carrying
\* NO_EXIT_RUNTIME=1.
C16_Witness ==
    /\ IsSome(builder)
    /\ Unwrap(builder).build_target.profile = "Main"
    /\ Unwrap(Unwrap(builder).triplet) = StrWasm32UnknownEmscripten
    /\ NoExitRuntimeValues(Unwrap(builder)) = { TRUE }

----------------------------------------------------------------------------
(* C17 *)

\* The linker arguments of the loaded Web.toml.
DeclaredLinkArgs ==
    IF IsSome(config) /\ IsSome(Unwrap(config).link_args)
    THEN Unwrap(Unwrap(config).link_args) ELSE << >>

\* A white-space character other than the space.
OtherWhitespace == { "\t", "\n" }

HasChar(arg, chars) == \E j \in 1..Len(arg) : arg[j] \in chars

\* The flag pairs of the arguments args are in flags, in order, from
\* position k + 1 on.
FlagPairsAt(flags, args, k) ==
    /\ k + 2 * Len(args) <= Len(flags)
    /\ \A i \in 1..Len(args) :
         /\ flags[k + 2 * i - 1] = StrDashC
         /\ flags[k + 2 * i] = StrLinkArgEq \o args[i]

\* The process was aborted while a configuration was prepared.
AbortedInPrepare ==
    pc = "done" /\ exit_code = Some(101) /\ build_log = << >> /\ run_log = << >>

\* C17 as stated: an argument with white space of any kind is never
\* appended; a configuration exists only if no declared argument holds a
\* space, a tab or a newline.
C17_NoWhitespaceAppended ==
    IsSome(builder) =>
        \A i \in 1..Len(DeclaredLinkArgs) :
            ~HasChar(DeclaredLinkArgs[i], { " " } \cup OtherWhitespace)

\* C17: only the space character is rejected.  A configuration exists only
\* if no declared argument holds a space, and then every declared argument,
\* one with a tab included, is appended as the pair -C link-arg=<arg>, in
\* declared order; the process aborts with status 101 while preparing a
\* configuration exactly when a declared argument holds a space, and then
\* the toolchain was never invoked.
C17_OnlySpaceRejected ==
    /\ IsSome(builder) =>
          /\ \A i \in 1..Len(DeclaredLinkArgs) :
               ~HasChar(DeclaredLinkArgs[i], { " " })
          /\ \E k \in 0..Len(Unwrap(builder).extra_rustflags) :
               FlagPairsAt(Unwrap(builder).extra_rustflags, DeclaredLinkArgs, k)
    /\ AbortedInPrepare =>
          \E i \in 1..Len(DeclaredLinkArgs) : HasChar(DeclaredLinkArgs[i], { " " })
    /\ (pc = "done" /\ Len(targets) >= 1
          /\ \E i \in 1..Len(DeclaredLinkArgs) : HasChar(DeclaredLinkArgs[i], { " " }))
          => AbortedInPrepare

\* A configuration whose flags hold the pair of the argument with the tab.
C17_Witness ==
    /\ IsSome(builder)
    /\ Len(DeclaredLinkArgs) = 2
    /\ HasChar(DeclaredLinkArgs[2], OtherWhitespace)
    /\ \E k \in 1..Len(Unwrap(builder).extra_rustflags) :
         Unwrap(builder).extra_rustflags[k] = StrLinkArgEq \o DeclaredLinkArgs[2]
    /\ build_log # << >>

----------------------------------------------------------------------------
(* C18 *)

\* The configuration's flags hold the pair -C debuginfo=2.
HasDebuginfo(b) ==
    \E i \in 1..(Len(b.extra_rustflags) - 1) :
        b.extra_rustflags[i] = StrDashC /\ b.extra_rustflags[i + 1] = StrDebuginfo2

\* C18 as stated: the debug-info flag is there exactly when the triplet is
\* native WebAssembly and the build type recorded in the configuration is
\* Debug, and never together with build type Release.
C18_DebuginfoIffEffectiveDebug ==
    IsSome(builder) =>
        LET b == Unwrap(builder) IN
        /\ HasDebuginfo(b) <=>
              (b.triplet = Some(StrWasm32UnknownUnknown) /\ b.build_type = "Debug")
        /\ ~(HasDebuginfo(b) /\ b.build_type = "Release")

\* C18: the debug-info flag is there exactly when the triplet is native
\* WebAssembly and the requested build type is Debug (no --release); the
\* build type recorded in that configuration is Release, so the flag always
\* comes with the effective build type Release and never with Debug.
C18_DebuginfoIffRequestedDebug ==
    IsSome(builder) =>
        LET b == Unwrap(builder) IN
        /\ HasDebuginfo(b) <=>
              (b.triplet = Some(StrWasm32UnknownUnknown) /\ ~matches.release)
        /\ HasDebuginfo(b) =>
              /\ b.build_type = "Release"
              /\ b.extra_rustflags[Len(b.extra_rustflags)] = StrDebuginfo2
        /\ b.build_type = "Debug" => ~HasDebuginfo(b)

\* A native configuration, Debug requested: build type Release with the
\* debug-info flag.
C18_Witness ==
    /\ IsSome(builder)
    /\ ~matches.release
    /\ Unwrap(builder).triplet = Some(StrWasm32UnknownUnknown)
    /\ Unwrap(builder).build_type = "Release"
    /\ HasDebuginfo(Unwrap(builder))

----------------------------------------------------------------------------
(* C19 *)

\* The runtime the flags choose (cmd_test.rs:101).
ChosenRuntime == IF matches.nodejs THEN "nodejs" ELSE "chromium"

\* C19: the resolved targets are built one by one in resolved order, each at
\* most once; once a test run has been made every resolved target has been
\* built, successfully and exactly once, so no build follows a run; the runs
\* are made in the order of the builds, at most one per build; and every run
\* of the invocation uses the runtime the flags choose.
C19_BuildsThenRunsInOrder ==
    /\ Len(build_log) <= Len(targets)
    /\ Len(builds) <= Len(build_log)
    /\ \A j \in 1..Len(build_log) : build_log[j].target = targets[j]
    /\ \A j \in 1..Len(builds) : builds[j].target = targets[j]
    /\ run_log # << >> =>
          /\ pc \in { "run", "blocked", "done" }
          /\ Len(build_log) = Len(targets)
          /\ Len(builds) = Len(targets)
          /\ AllBuildsOk
    /\ Len(run_log) <= Len(builds)
    /\ \A i \in 1..Len(run_log) :
          /\ run_log[i].target = builds[i].target
          /\ run_log[i].runtime = ChosenRuntime

\* Three targets built, then run in the same order in node.js.
C19_Witness ==
    /\ pc = "done"
    /\ Len(targets) = 3
    /\ Len(build_log) = 3
    /\ Len(run_log) = 3
    /\ \A i \in 1..3 : run_log[i].target = targets[i] /\ run_log[i].runtime = "nodejs"
    /\ targets[1] # targets[3]

----------------------------------------------------------------------------
(* C20 *)

\* C20: in an invocation for native WebAssembly without --nodejs no package
\* is resolved, no Web.toml is loaded, no target is resolved, no
\* configuration is prepared and the toolchain is never invoked; with
\* --no-run the command still returns ConfigurationError and the process
\* does not exit with status 0.
C20_RejectedBeforeResolution ==
    UnsupportedRuntime =>
        /\ package = None
        /\ config = None
        /\ targets = << >>
        /\ builder = None
        /\ builds = << >>
        /\ build_log = << >>
        /\ exit_code = None
        /\ result \in { "Running", "ConfigurationError" }
        /\ (matches.no_run /\ pc = "done") => result = "ConfigurationError"

\* Native WebAssembly without --nodejs and with --no-run, for a package that
\* does not exist: the runtime is what is rejected, nothing was built.
C20_Witness ==
    /\ UnsupportedRuntime
    /\ matches.no_run
    /\ matches.package = Some("zz")
    /\ pc = "done"
    /\ result = "ConfigurationError"
    /\ package = None
    /\ build_log = << >>

====
